---- MODULE Spec2Model ----
(***************************************************************************)
(* GPUQT model construction (src/src/model.cu, src/src/model_lattice.cu):  *)
(* parameter store, lattice-file validation, unit-cell expansion, vacancy  *)
(* compaction, permutation sampling and the random-state initializer.      *)
(*                                                                         *)
(* Arrays are functions over 0..len-1, as the source indexes them.  A real *)
(* number r is held as the integer r * Scale.  An access outside an array  *)
(* is undefined behaviour: a read yields any value of a garbage set, a     *)
(* write is lost, `ub` is raised, and from then on the process may fault.  *)
(***************************************************************************)
EXTENDS Integers, Sequences, FiniteSets, TLC

\* ---------------------------------------------------------------- bounds
MaxShuffle == 4        \* atoms handed to specify_vacancies on its own
MaxStateAtoms == 5     \* atoms handed to initialize_state
MaxLines == 3          \* lines of para.in
MaxCell == 2           \* cell extent per axis (lattice.in)
MaxAtoms == 4          \* N_orbital * Nx * Ny * Nz in the lattice runs
MaxVacancies == 3      \* vacancy_disorder <N>
MaxDraw == 4           \* small outputs of the generator
MaxHops == 2           \* hops listed per orbital (lattice.in)
MaxImpurities == 2     \* charged_impurity <N>

\* ---------------------------------------------------- representation
Scale == 2
Uninit == -77
INT_MAX == 2147483647

Garbage == {-1, 0, 9}

VARIABLES
  pc, ub,
  \* parameter store
  use_lattice_model, has_anderson_disorder, has_charged_impurities,
  has_vacancy_disorder, calculate_vac, calculate_msd, calculate_spin,
  requires_time, anderson_disorder_strength, number_of_charged_impurities,
  charged_impurity_strength, charged_impurity_range, number_of_vacancies,
  number_of_random_vectors, number_of_moments, energy_max, lines_read,
  last_token, verified, opened,
  number_of_energy_points, energy, number_of_steps_correlation, time_step,
  \* lattice.in and the unit-cell expander
  N_cell, pbc, transport_direction, lattice_constant, box_length, volume,
  N_orbital, max_neighbor, number_of_atoms, number_of_pairs,
  x_cell, y_cell, z_cell, number_of_hoppings, hopping_data, template,
  cursor, neighbor_number, neighbor_list, hopping_real, hopping_imag, xx,
  written_slots, potential, x, y, z,
  \* add_vacancies
  number_of_atoms_pristine, neighbor_number_pristine, neighbor_list_pristine,
  hopping_real_pristine, hopping_imag_pristine, xx_pristine,
  is_vacancy, new_atom_index, count_atom, vac_n, survivors,
  \* create_random_numbers
  crn_max_value, crn_total_number, permuted_numbers, crn_i, crn_j,
  random_numbers, crn_return,
  \* initialize_state
  random_state_real, random_state_imag, state_n, random_state, draws

ctlVars == <<pc, ub>>
paraVars == <<use_lattice_model, has_anderson_disorder, has_charged_impurities,
  has_vacancy_disorder, calculate_vac, calculate_msd, calculate_spin,
  requires_time, anderson_disorder_strength, number_of_charged_impurities,
  charged_impurity_strength, charged_impurity_range, number_of_vacancies,
  number_of_random_vectors, number_of_moments, energy_max, lines_read,
  last_token, verified, opened>>
gridVars == <<number_of_energy_points, energy, number_of_steps_correlation,
  time_step>>
headVars == <<N_cell, pbc, transport_direction, lattice_constant, box_length,
  volume, N_orbital, max_neighbor>>
cellVars == <<x_cell, y_cell, z_cell, number_of_hoppings, hopping_data,
  template>>
tableVars == <<number_of_atoms, number_of_pairs, neighbor_number,
  neighbor_list, hopping_real, hopping_imag, xx, written_slots>>
siteVars == <<potential, x, y, z>>
vacVars == <<number_of_atoms_pristine, neighbor_number_pristine,
  neighbor_list_pristine, hopping_real_pristine, hopping_imag_pristine,
  xx_pristine, is_vacancy, new_atom_index, count_atom, vac_n, survivors>>
crnVars == <<crn_max_value, crn_total_number, permuted_numbers, crn_i, crn_j,
  random_numbers, crn_return>>
stateVars == <<random_state_real, random_state_imag, state_n, random_state,
  draws>>
vars == <<ctlVars, paraVars, gridVars, headVars, cellVars, cursor, tableVars,
  siteVars, vacVars, crnVars, stateVars>>

\* ---------------------------------------------------------------- helpers
Empty == [i \in {} |-> 0]
NewArray(len) == [i \in 0..(len - 1) |-> Uninit]
Zeros(len) == [i \in 0..(len - 1) |-> 0]
Arr3(a, b, c) == [d \in 0..2 |-> IF d = 0 THEN a ELSE IF d = 1 THEN b ELSE c]
Len0(a) == Cardinality(DOMAIN a)
InRange(a, i) == i \in DOMAIN a

\* ------------------------------------------------- states before any use
ParaDefault ==
  [use_lattice_model |-> 0, has_anderson_disorder |-> FALSE,
   has_charged_impurities |-> FALSE, has_vacancy_disorder |-> FALSE,
   calculate_vac |-> FALSE, calculate_msd |-> FALSE, calculate_spin |-> FALSE,
   requires_time |-> FALSE, anderson_disorder_strength |-> 0,
   number_of_charged_impurities |-> 0, charged_impurity_strength |-> 0,
   charged_impurity_range |-> 0, number_of_vacancies |-> 0,
   number_of_random_vectors |-> 1, number_of_moments |-> 1,
   energy_max |-> Scale, lines_read |-> 0,
   last_token |-> "(none)", verified |-> FALSE, opened |-> <<>>]
\* the store p as Model::Model leaves it when the model input is reached
\* (model = FALSE) or has been opened (model = TRUE)
Verified(p, model) ==
  [p EXCEPT !.verified = TRUE,
            !.opened = <<"para.in", "energy.in">>
                         \o (IF p.requires_time THEN <<"time_step.in">>
                                                ELSE <<>>)
                         \o (IF ~model THEN <<>>
                             ELSE IF p.use_lattice_model = 1
                             THEN <<"lattice.in">> ELSE <<"general">>)]
ParaEq(p) ==
  /\ use_lattice_model = p.use_lattice_model
  /\ has_anderson_disorder = p.has_anderson_disorder
  /\ has_charged_impurities = p.has_charged_impurities
  /\ has_vacancy_disorder = p.has_vacancy_disorder
  /\ calculate_vac = p.calculate_vac /\ calculate_msd = p.calculate_msd
  /\ calculate_spin = p.calculate_spin /\ requires_time = p.requires_time
  /\ anderson_disorder_strength = p.anderson_disorder_strength
  /\ number_of_charged_impurities = p.number_of_charged_impurities
  /\ charged_impurity_strength = p.charged_impurity_strength
  /\ charged_impurity_range = p.charged_impurity_range
  /\ number_of_vacancies = p.number_of_vacancies
  /\ number_of_random_vectors = p.number_of_random_vectors
  /\ number_of_moments = p.number_of_moments
  /\ energy_max = p.energy_max /\ lines_read = p.lines_read
  /\ last_token = p.last_token /\ verified = p.verified
  /\ opened = p.opened
GridBlank ==
  /\ number_of_energy_points = 0 /\ energy = Empty
  /\ number_of_steps_correlation = 0 /\ time_step = Empty
HeadBlank ==
  /\ N_cell = Arr3(0, 0, 0) /\ pbc = Arr3(0, 0, 0) /\ transport_direction = 0
  /\ lattice_constant = Arr3(0, 0, 0) /\ box_length = Arr3(0, 0, 0)
  /\ volume = 0 /\ N_orbital = 0 /\ max_neighbor = 0
CellBlank ==
  /\ x_cell = Empty /\ y_cell = Empty /\ z_cell = Empty
  /\ number_of_hoppings = Empty /\ hopping_data = Empty /\ template = <<>>
TableIs(atoms) ==
  /\ number_of_atoms = atoms /\ number_of_pairs = 0
  /\ neighbor_number = Empty /\ neighbor_list = Empty
  /\ hopping_real = Empty /\ hopping_imag = Empty /\ xx = Empty
  /\ written_slots = Empty
SiteBlank == potential = Empty /\ x = Empty /\ y = Empty /\ z = Empty
VacIs(pristine, vacancy_flags) ==
  /\ number_of_atoms_pristine = pristine
  /\ neighbor_number_pristine = Empty /\ neighbor_list_pristine = Empty
  /\ hopping_real_pristine = Empty /\ hopping_imag_pristine = Empty
  /\ xx_pristine = Empty
  /\ is_vacancy = vacancy_flags /\ new_atom_index = Empty
  /\ survivors = <<>>
  /\ count_atom = 0 /\ vac_n = 0
CrnBlank ==
  /\ crn_max_value = 0 /\ crn_total_number = 0 /\ permuted_numbers = Empty
  /\ crn_i = 0 /\ crn_j = 0 /\ random_numbers = Empty /\ crn_return = "none"
StateBlank ==
  /\ random_state_real = Empty /\ random_state_imag = Empty /\ state_n = 0
  /\ random_state = [real |-> Empty, imag |-> Empty] /\ draws = <<>>

\* ------------------------------------------------ create_random_numbers
RandInts == (0..MaxDraw) \cup {INT_MAX}

Identity(len) == [i \in 0..(len - 1) |-> i]

\* the naive partner: drawn from the whole array
SwapPartnerWhole(r, max_value, i) == r % max_value

\* int j = rand_int(generator) % (max_value - i) + i;
SwapPartner(r, max_value, i) == (r % (max_value - i)) + i

Swap(a, i, j) == [a EXCEPT ![i] = a[j], ![j] = a[i]]

\* specify_vacancies up to the shuffle: vacancy_indices is allocated and
\* create_random_numbers fills permuted_numbers with 0..max_value-1
SpecifyVacanciesCall ==
  /\ pc = "specify_vacancies"
  /\ crn_max_value' = number_of_atoms_pristine
  /\ crn_total_number' = number_of_vacancies
  /\ random_numbers' = NewArray(number_of_vacancies)
  /\ permuted_numbers' = Identity(number_of_atoms_pristine)
  /\ crn_i' = 0 /\ crn_j' = 0
  /\ crn_return' = "mark_vacancies"
  /\ pc' = "crn_shuffle"
  /\ UNCHANGED <<ub, paraVars, gridVars, headVars, cellVars, cursor,
                 tableVars, siteVars, vacVars, stateVars>>

\* one iteration of the swap loop, r the generator's output
CrnSwap(r) ==
  /\ pc = "crn_shuffle"
  /\ crn_i < crn_max_value
  /\ LET j == SwapPartner(r, crn_max_value, crn_i)
     IN /\ crn_j' = j
        /\ IF InRange(permuted_numbers, j)
           THEN /\ permuted_numbers' = Swap(permuted_numbers, crn_i, j)
                /\ ub' = ub
           ELSE /\ \E g \in Garbage :
                     permuted_numbers' = [permuted_numbers EXCEPT ![crn_i] = g]
                /\ ub' = TRUE
  /\ crn_i' = crn_i + 1
  /\ UNCHANGED <<pc, crn_max_value, crn_total_number, random_numbers,
                 crn_return, paraVars, gridVars, headVars, cellVars, cursor,
                 tableVars, siteVars, vacVars, stateVars>>

\* the copy loop and delete[] permuted_numbers; g is what a read past the
\* end of permuted_numbers yields
CrnCopy(g) ==
  /\ pc = "crn_shuffle"
  /\ crn_i >= crn_max_value
  /\ random_numbers' = [i \in 0..(crn_total_number - 1) |->
        IF InRange(permuted_numbers, i) THEN permuted_numbers[i] ELSE g]
  /\ ub' = (ub \/ crn_total_number > crn_max_value)
  /\ permuted_numbers' = Empty
  /\ pc' = crn_return
  /\ UNCHANGED <<crn_max_value, crn_total_number, crn_i, crn_j, crn_return,
                 paraVars, gridVars, headVars, cellVars, cursor, tableVars,
                 siteVars, vacVars, stateVars>>

\* the rest of specify_vacancies: clear is_vacancy, mark the sampled atoms,
\* delete[] vacancy_indices
MarkVacancies ==
  /\ pc = "mark_vacancies"
  /\ is_vacancy' = [n \in 0..(number_of_atoms_pristine - 1) |->
        IF \E i \in DOMAIN random_numbers : random_numbers[i] = n
        THEN 1 ELSE 0]
  /\ ub' = (ub \/ \E i \in DOMAIN random_numbers :
                     random_numbers[i] \notin 0..(number_of_atoms_pristine - 1))
  /\ random_numbers' = Empty
  /\ pc' = "find_new_atom_index"
  /\ UNCHANGED <<paraVars, gridVars, headVars, cellVars, cursor, tableVars,
                 siteVars, number_of_atoms_pristine, neighbor_number_pristine,
                 neighbor_list_pristine, hopping_real_pristine,
                 hopping_imag_pristine, xx_pristine, new_atom_index,
                 count_atom, vac_n, survivors, crn_max_value, crn_total_number,
                 permuted_numbers, crn_i, crn_j, crn_return, stateVars>>

\* specify_vacancies on its own: any atom count N, any k in 0..N
InitShuffle ==
  /\ pc = "specify_vacancies" /\ ub = FALSE
  /\ \E n \in 1..MaxShuffle : \E k \in 0..n :
        /\ ParaEq(Verified([ParaDefault EXCEPT !.use_lattice_model = 1,
                     !.has_vacancy_disorder = TRUE, !.number_of_vacancies = k],
                     TRUE))
        /\ VacIs(n, NewArray(n))
  /\ GridBlank /\ HeadBlank /\ CellBlank /\ cursor = 0 /\ TableIs(0)
  /\ SiteBlank /\ CrnBlank /\ StateBlank
NextShuffle ==
  \/ SpecifyVacanciesCall
  \/ \E r \in RandInts : CrnSwap(r)
  \/ \E g \in Garbage : CrnCopy(g)
  \/ MarkVacancies
SpecShuffle == InitShuffle /\ [][NextShuffle]_vars

IsPermutation(a, n) ==
  /\ DOMAIN a = 0..(n - 1)
  /\ \A v \in 0..(n - 1) : \E i \in DOMAIN a : a[i] = v

\* C4: create_random_numbers samples without replacement: the swap partner
\* of step i lies in [i, N), the working array stays a permutation of
\* 0..N-1, the k values returned are pairwise distinct and in [0, N), and
\* specify_vacancies marks exactly k atoms vacant and N - k present.
C4_SamplingWithoutReplacement ==
  /\ pc = "crn_shuffle" =>
        /\ IsPermutation(permuted_numbers, crn_max_value)
        /\ crn_i > 0 => (crn_i - 1 <= crn_j /\ crn_j < crn_max_value)
  /\ pc = "mark_vacancies" =>
        /\ DOMAIN random_numbers = 0..(number_of_vacancies - 1)
        /\ \A i \in DOMAIN random_numbers :
              random_numbers[i] \in 0..(number_of_atoms_pristine - 1)
        /\ \A i, j \in DOMAIN random_numbers :
              i # j => random_numbers[i] # random_numbers[j]
  /\ pc = "find_new_atom_index" =>
        /\ Cardinality({n \in DOMAIN is_vacancy : is_vacancy[n] = 1})
              = number_of_vacancies
        /\ Cardinality({n \in DOMAIN is_vacancy : is_vacancy[n] = 0})
              = number_of_atoms_pristine - number_of_vacancies
        /\ ~ub

\* a shuffle that moved an element and a marking of 2 of 4 atoms
C4_Witness ==
  /\ pc = "find_new_atom_index"
  /\ number_of_atoms_pristine = 4 /\ number_of_vacancies = 2
  /\ is_vacancy[3] = 1 /\ is_vacancy[1] = 1 /\ crn_j = 3

\* ------------------------------------------------------ the process faults
\* after undefined behaviour the run may end at any point
Running == pc \notin {"exit", "crashed", "done", "state_done"}
Crash ==
  /\ ub /\ Running
  /\ pc' = "crashed"
  /\ UNCHANGED <<ub, paraVars, gridVars, headVars, cellVars, cursor,
                 tableVars, siteVars, vacVars, crnVars, stateVars>>

\* ----------------------------------------------------- initialize_state
\* a phase q stands for the angle q * PI / 2 drawn from [0, 2 PI)
Phases == 0..3
Cos(q) == IF q = 0 THEN Scale ELSE IF q = 2 THEN -Scale ELSE 0
Sin(q) == IF q = 1 THEN Scale ELSE IF q = 3 THEN -Scale ELSE 0

\* a loop that visits every index in both modes
StrideAlwaysOne(spin) == 1

\* n += 2 under calculate_spin, ++n otherwise
Stride(spin) == IF spin THEN 2 ELSE 1

Store(a, i, v) == IF InRange(a, i) THEN [a EXCEPT ![i] = v] ELSE a

StateBegin ==
  /\ pc = "initialize_state"
  /\ random_state_real' = NewArray(number_of_atoms)
  /\ random_state_imag' = NewArray(number_of_atoms)
  /\ state_n' = 0
  /\ pc' = "state_loop"
  /\ UNCHANGED <<ub, paraVars, gridVars, headVars, cellVars, cursor,
                 tableVars, siteVars, vacVars, crnVars, random_state, draws>>

\* one iteration of either loop, q the phase drawn
StateStep(q) ==
  /\ pc = "state_loop"
  /\ state_n < number_of_atoms
  /\ draws' = Append(draws, <<state_n, q>>)
  /\ IF calculate_spin
     THEN /\ random_state_real' =
               Store(Store(random_state_real, state_n, Cos(q)), state_n + 1, 0)
          /\ random_state_imag' =
               Store(Store(random_state_imag, state_n, Sin(q)), state_n + 1, 0)
          /\ ub' = (ub \/ ~InRange(random_state_real, state_n + 1))
     ELSE /\ random_state_real' = Store(random_state_real, state_n, Cos(q))
          /\ random_state_imag' = Store(random_state_imag, state_n, Sin(q))
          /\ ub' = ub
  /\ state_n' = state_n + Stride(calculate_spin)
  /\ UNCHANGED <<pc, paraVars, gridVars, headVars, cellVars, cursor,
                 tableVars, siteVars, vacVars, crnVars, random_state>>

\* Vector::copy_from_host takes the number_of_atoms entries of both arrays
CopyFromHost(re, im) == [real |-> re, imag |-> im]

StateCopy ==
  /\ pc = "state_loop"
  /\ state_n >= number_of_atoms
  /\ random_state' = CopyFromHost(random_state_real, random_state_imag)
  /\ random_state_real' = Empty /\ random_state_imag' = Empty
  /\ pc' = "state_done"
  /\ UNCHANGED <<ub, paraVars, gridVars, headVars, cellVars, cursor,
                 tableVars, siteVars, vacVars, crnVars, state_n, draws>>

\* initialize_state on a built model: a lattice model never has spin
InitState ==
  /\ pc = "initialize_state" /\ ub = FALSE
  /\ \E n \in 1..MaxStateAtoms : TableIs(n)
  /\ \E lattice \in {0, 1} : \E spin \in BOOLEAN :
        /\ lattice = 1 => ~spin
        /\ ParaEq(Verified([ParaDefault EXCEPT !.use_lattice_model = lattice,
                     !.calculate_spin = spin, !.requires_time = spin], TRUE))
  /\ GridBlank /\ HeadBlank /\ CellBlank /\ cursor = 0
  /\ SiteBlank /\ VacIs(0, Empty) /\ CrnBlank /\ StateBlank
NextState ==
  \/ StateBegin
  \/ \E q \in Phases : StateStep(q)
  \/ StateCopy
  \/ Crash
SpecState == InitState /\ [][NextState]_vars

Populated(n) == ~calculate_spin \/ n % 2 = 0

\* C9: after initialize_state every index in [0, N) of the output is
\* written; a populated index (every index, or every even index under spin)
\* holds the unit-modulus amplitude (cos, sin) of its own draw, an odd index
\* under spin holds exactly (0, 0); draws are taken in ascending index
\* order, one per populated atom.
C9_RandomStateFilled ==
  pc = "state_done" =>
    /\ DOMAIN random_state.real = 0..(number_of_atoms - 1)
    /\ DOMAIN random_state.imag = 0..(number_of_atoms - 1)
    /\ Len(draws) = Cardinality({n \in 0..(number_of_atoms - 1) : Populated(n)})
    /\ \A i, j \in 1..Len(draws) : i < j => draws[i][1] < draws[j][1]
    /\ \A n \in 0..(number_of_atoms - 1) :
         IF Populated(n)
         THEN \E i \in 1..Len(draws) :
                /\ draws[i][1] = n
                /\ random_state.real[n] = Cos(draws[i][2])
                /\ random_state.imag[n] = Sin(draws[i][2])
                /\ random_state.real[n] * random_state.real[n]
                     + random_state.imag[n] * random_state.imag[n]
                     = Scale * Scale
         ELSE random_state.real[n] = 0 /\ random_state.imag[n] = 0

\* a finished spin-mode state over 4 atoms with two different phases
C9_Witness ==
  /\ pc = "state_done" /\ calculate_spin /\ number_of_atoms = 4
  /\ random_state.real[0] = Scale /\ random_state.imag[2] = -Scale
  /\ random_state.real[3] = 0

\* C16: initialize_state writes only to indices in [0, number_of_atoms) of
\* random_state_real and random_state_imag, in both modes and for every
\* number_of_atoms >= 1, odd ones under spin included.
C16_WritesInsideTemporaries ==
  pc \in {"state_loop", "state_done"} => ~ub

\* ------------------------------------------------------- the parameter store
Para ==
  [use_lattice_model |-> use_lattice_model,
   has_anderson_disorder |-> has_anderson_disorder,
   has_charged_impurities |-> has_charged_impurities,
   has_vacancy_disorder |-> has_vacancy_disorder,
   calculate_vac |-> calculate_vac, calculate_msd |-> calculate_msd,
   calculate_spin |-> calculate_spin, requires_time |-> requires_time,
   anderson_disorder_strength |-> anderson_disorder_strength,
   number_of_charged_impurities |-> number_of_charged_impurities,
   charged_impurity_strength |-> charged_impurity_strength,
   charged_impurity_range |-> charged_impurity_range,
   number_of_vacancies |-> number_of_vacancies,
   number_of_random_vectors |-> number_of_random_vectors,
   number_of_moments |-> number_of_moments,
   energy_max |-> energy_max, lines_read |-> lines_read,
   last_token |-> last_token, verified |-> verified, opened |-> opened]
SetPara(p) ==
  /\ use_lattice_model' = p.use_lattice_model
  /\ has_anderson_disorder' = p.has_anderson_disorder
  /\ has_charged_impurities' = p.has_charged_impurities
  /\ has_vacancy_disorder' = p.has_vacancy_disorder
  /\ calculate_vac' = p.calculate_vac /\ calculate_msd' = p.calculate_msd
  /\ calculate_spin' = p.calculate_spin /\ requires_time' = p.requires_time
  /\ anderson_disorder_strength' = p.anderson_disorder_strength
  /\ number_of_charged_impurities' = p.number_of_charged_impurities
  /\ charged_impurity_strength' = p.charged_impurity_strength
  /\ charged_impurity_range' = p.charged_impurity_range
  /\ number_of_vacancies' = p.number_of_vacancies
  /\ number_of_random_vectors' = p.number_of_random_vectors
  /\ number_of_moments' = p.number_of_moments
  /\ energy_max' = p.energy_max /\ lines_read' = p.lines_read
  /\ last_token' = p.last_token /\ verified' = p.verified
  /\ opened' = p.opened

\* lines a para.in may hold: the first token and the values after it
Line(token, args) == [token |-> token, args |-> args]
ParaLines ==
  {Line("", <<>>), Line("frobnicate", <<5>>),
   Line("model", <<0>>), Line("model", <<1>>),
   Line("anderson_disorder", <<Scale>>), Line("anderson_disorder", <<0>>),
   Line("charged_impurity", <<1, Scale, Scale>>),
   Line("charged_impurity", <<0, -Scale, 0>>),
   Line("vacancy_disorder", <<0>>), Line("vacancy_disorder", <<1>>),
   Line("calculate_vac", <<>>), Line("calculate_msd", <<>>),
   Line("calculate_spin", <<>>),
   Line("number_of_random_vectors", <<0>>),
   Line("number_of_moments", <<0>>),
   Line("energy_max", <<0>>), Line("energy_max", <<Scale>>)}
KnownTokens ==
  {"model", "anderson_disorder", "charged_impurity", "vacancy_disorder",
   "calculate_vac", "calculate_msd", "calculate_spin",
   "number_of_random_vectors", "number_of_moments", "energy_max"}

\* the if / else-if chain of initialize_parameters on one line
ApplyLine(p, l) ==
  IF l.token = "model"
  THEN [p EXCEPT !.use_lattice_model = l.args[1]]
  ELSE IF l.token = "anderson_disorder"
  THEN [p EXCEPT !.has_anderson_disorder = TRUE,
                 !.anderson_disorder_strength = l.args[1]]
  ELSE IF l.token = "charged_impurity"
  THEN [p EXCEPT !.has_charged_impurities = TRUE,
                 !.number_of_charged_impurities = l.args[1],
                 !.charged_impurity_strength = l.args[2],
                 !.charged_impurity_range = l.args[3]]
  ELSE IF l.token = "vacancy_disorder"
  THEN [p EXCEPT !.has_vacancy_disorder = TRUE,
                 !.number_of_vacancies = l.args[1]]
  ELSE IF l.token = "calculate_vac" THEN [p EXCEPT !.calculate_vac = TRUE]
  ELSE IF l.token = "calculate_msd" THEN [p EXCEPT !.calculate_msd = TRUE]
  ELSE IF l.token = "calculate_spin" THEN [p EXCEPT !.calculate_spin = TRUE]
  ELSE IF l.token = "number_of_random_vectors"
  THEN [p EXCEPT !.number_of_random_vectors = l.args[1]]
  ELSE IF l.token = "number_of_moments"
  THEN [p EXCEPT !.number_of_moments = l.args[1]]
  ELSE IF l.token = "energy_max" THEN [p EXCEPT !.energy_max = l.args[1]]
  ELSE p

\* verify_parameters without the spin-and-MSD check
VerifyFatalNoSpinMsd(p) ==
  \/ p.use_lattice_model = 1 /\ p.calculate_spin
  \/ p.use_lattice_model = 1 /\ p.has_vacancy_disorder
       /\ p.number_of_vacancies <= 0
  \/ p.use_lattice_model # 1 /\ p.has_anderson_disorder
  \/ p.use_lattice_model # 1 /\ p.has_vacancy_disorder
  \/ p.use_lattice_model # 1 /\ p.has_charged_impurities
  \/ p.calculate_spin /\ p.calculate_vac
  \/ p.number_of_random_vectors <= 0
  \/ p.number_of_moments <= 0
  \/ p.energy_max <= 0

\* verify_parameters: TRUE when one of its checks calls exit(1)
VerifyFatal(p) ==
  \/ p.use_lattice_model = 1 /\ p.calculate_spin
  \/ p.use_lattice_model = 1 /\ p.has_vacancy_disorder
       /\ p.number_of_vacancies <= 0
  \/ p.use_lattice_model # 1 /\ p.has_anderson_disorder
  \/ p.use_lattice_model # 1 /\ p.has_vacancy_disorder
  \/ p.use_lattice_model # 1 /\ p.has_charged_impurities
  \/ p.calculate_spin /\ p.calculate_vac
  \/ p.calculate_spin /\ p.calculate_msd
  \/ p.number_of_random_vectors <= 0
  \/ p.number_of_moments <= 0
  \/ p.energy_max <= 0

\* requires_time without the spin case
RequiresTimeNoSpin(p) ==
  p.requires_time \/ p.calculate_vac \/ p.calculate_msd

RequiresTime(p) ==
  p.requires_time \/ p.calculate_vac \/ p.calculate_msd \/ p.calculate_spin

restVars == <<gridVars, headVars, cellVars, cursor, tableVars, siteVars,
              vacVars, crnVars, stateVars>>

\* the parameter store once std::ifstream input(file) has run
Opening(file) == [Para EXCEPT !.opened = Append(opened, file)]

\* Model::Model up to the open of para.in
OpenParameters(open) ==
  /\ pc = "start"
  /\ SetPara(Opening("para.in"))
  /\ pc' = IF open THEN "para_in" ELSE "exit"
  /\ UNCHANGED <<ub, restVars>>

\* one pass of the getline loop
ParseLine(l) ==
  /\ pc = "para_in"
  /\ lines_read < MaxLines
  /\ IF l.token = "" \/ l.token \in KnownTokens
     THEN /\ SetPara([ApplyLine(Para, l) EXCEPT !.lines_read = lines_read + 1,
                                                !.last_token = l.token])
          /\ pc' = pc
     ELSE /\ SetPara([Para EXCEPT !.lines_read = lines_read + 1,
                                  !.last_token = l.token])
          /\ pc' = "exit"
  /\ UNCHANGED <<ub, restVars>>

\* end of file: input.close() and verify_parameters()
EndOfParameters ==
  /\ pc = "para_in"
  /\ SetPara([Para EXCEPT !.requires_time = RequiresTime(Para),
                           !.verified = TRUE])
  /\ pc' = IF VerifyFatal(Para) THEN "exit" ELSE "energy_in"
  /\ UNCHANGED <<ub, restVars>>

GridFiles == {<<-Scale, Scale>>}
ArrayOf(seq) == [i \in 0..(Len(seq) - 1) |-> seq[i + 1]]

AfterGrids ==
  IF use_lattice_model = 1 THEN "lattice_in" ELSE "general_in"

InitializeEnergy(open, file) ==
  /\ pc = "energy_in"
  /\ SetPara(Opening("energy.in"))
  /\ IF open
     THEN /\ number_of_energy_points' = Len(file)
          /\ energy' = ArrayOf(file)
          /\ pc' = IF requires_time THEN "time_in" ELSE AfterGrids
     ELSE /\ pc' = "exit"
          /\ UNCHANGED <<number_of_energy_points, energy>>
  /\ UNCHANGED <<ub, number_of_steps_correlation, time_step,
                 headVars, cellVars, cursor, tableVars, siteVars, vacVars,
                 crnVars, stateVars>>

InitializeTime(open, file) ==
  /\ pc = "time_in"
  /\ SetPara(Opening("time_step.in"))
  /\ IF open
     THEN /\ number_of_steps_correlation' = Len(file)
          /\ time_step' = ArrayOf(file)
          /\ pc' = AfterGrids
     ELSE /\ pc' = "exit"
          /\ UNCHANGED <<number_of_steps_correlation, time_step>>
  /\ UNCHANGED <<ub, number_of_energy_points, energy,
                 headVars, cellVars, cursor, tableVars, siteVars, vacVars,
                 crnVars, stateVars>>

\* initialize_model_general builds the model from general inputs
InitializeModelGeneral(atoms) ==
  /\ pc = "general_in"
  /\ SetPara(Opening("general"))
  /\ number_of_atoms' = atoms
  /\ pc' = "done"
  /\ UNCHANGED <<ub, gridVars, headVars, cellVars, cursor,
                 number_of_pairs, neighbor_number, neighbor_list,
                 hopping_real, hopping_imag, xx, written_slots, siteVars,
                 vacVars, crnVars, stateVars>>

\* ------------------------------------------------ lattice.in: validation
PositiveCells(c) == c[0] > 0 /\ c[1] > 0 /\ c[2] > 0

\* pbc flags, transport_direction and pbc[transport_direction] checks
BoundaryFatal(p, td) ==
  \/ \E d \in 0..2 : p[d] \notin {0, 1}
  \/ td \notin 0..2
  \/ p[td] # 1

\* open lattice.in, read N_cell and check each extent
ReadCells(open, c) ==
  /\ pc = "lattice_in"
  /\ SetPara(Opening("lattice.in"))
  /\ IF open
     THEN /\ N_cell' = c
          /\ pc' = IF PositiveCells(c) THEN "boundary" ELSE "exit"
     ELSE /\ pc' = "exit"
          /\ UNCHANGED N_cell
  /\ UNCHANGED <<ub, gridVars, pbc, transport_direction,
                 lattice_constant, box_length, volume, N_orbital,
                 max_neighbor, cellVars, cursor, tableVars, siteVars,
                 vacVars, crnVars, stateVars>>

\* read pbc[0..2] and transport_direction and check them
ReadBoundary(p, td) ==
  /\ pc = "boundary"
  /\ pbc' = p /\ transport_direction' = td
  /\ pc' = IF BoundaryFatal(p, td) THEN "exit" ELSE "lattice_constants"
  /\ UNCHANGED <<ub, paraVars, gridVars, N_cell, lattice_constant,
                 box_length, volume, N_orbital, max_neighbor, cellVars,
                 cursor, tableVars, siteVars, vacVars, crnVars, stateVars>>

\* read the lattice constants, check them, set box_length and volume
\* (volume is held in units of 1 / Scale^3)
ReadLatticeConstants(lc) ==
  /\ pc = "lattice_constants"
  /\ lattice_constant' = lc
  /\ IF lc[0] <= 0 \/ lc[1] <= 0 \/ lc[2] <= 0
     THEN /\ pc' = "exit"
          /\ UNCHANGED <<box_length, volume>>
     ELSE /\ pc' = "orbitals"
          /\ box_length' = [d \in 0..2 |-> lc[d] * N_cell[d]]
          /\ volume' = (lc[0] * N_cell[0]) * (lc[1] * N_cell[1])
                         * (lc[2] * N_cell[2])
  /\ UNCHANGED <<ub, paraVars, gridVars, N_cell, pbc, transport_direction,
                 N_orbital, max_neighbor, cellVars, cursor, tableVars,
                 siteVars, vacVars, crnVars, stateVars>>

\* read N_orbital and max_neighbor, check them, size and allocate the
\* neighbor table, potential, positions and the template storage
ReadOrbitals(orbitals, neighbors) ==
  /\ pc = "orbitals"
  /\ N_orbital' = orbitals /\ max_neighbor' = neighbors
  /\ IF orbitals <= 0 \/ neighbors <= 0
     THEN /\ pc' = "exit"
          /\ UNCHANGED <<tableVars, siteVars, x_cell, y_cell, z_cell,
                         hopping_data>>
     ELSE LET atoms == orbitals * N_cell[0] * N_cell[1] * N_cell[2]
              pairs == atoms * neighbors
          IN /\ pc' = "positions"
             /\ number_of_atoms' = atoms /\ number_of_pairs' = pairs
             /\ neighbor_number' = NewArray(atoms)
             /\ neighbor_list' = NewArray(pairs)
             /\ hopping_real' = NewArray(pairs)
             /\ hopping_imag' = NewArray(pairs)
             /\ xx' = NewArray(pairs)
             /\ written_slots' = [n \in 0..(atoms - 1) |-> {}]
             /\ potential' = Zeros(atoms)
             /\ IF has_charged_impurities
                THEN x' = Zeros(atoms) /\ y' = Zeros(atoms) /\ z' = Zeros(atoms)
                ELSE UNCHANGED <<x, y, z>>
             /\ x_cell' = Zeros(orbitals) /\ y_cell' = Zeros(orbitals)
             /\ z_cell' = Zeros(orbitals)
             /\ hopping_data' = [c \in 0..5 |-> Zeros(orbitals * neighbors)]
  /\ UNCHANGED <<ub, paraVars, gridVars, N_cell, pbc, transport_direction,
                 lattice_constant, box_length, volume, number_of_hoppings,
                 template, cursor, vacVars, crnVars, stateVars>>

\* ------------------------------- configuration: para.in to the allocation
ConfigCells == [0..2 -> 0..1]
ConfigFlags == [0..2 -> 0..2]
ConfigAxes == (-1)..3
ConfigConstants ==
  {Arr3(Scale, Scale, Scale), Arr3(0, Scale, Scale), Arr3(Scale, -Scale, Scale)}

InitConfig ==
  /\ pc = "start" /\ ub = FALSE
  /\ ParaEq(ParaDefault)
  /\ GridBlank /\ HeadBlank /\ CellBlank /\ cursor = 0 /\ TableIs(0)
  /\ SiteBlank /\ VacIs(0, Empty) /\ CrnBlank /\ StateBlank
NextConfig ==
  \/ \E open \in BOOLEAN : OpenParameters(open)
  \/ \E l \in ParaLines : ParseLine(l)
  \/ EndOfParameters
  \/ \E open \in BOOLEAN : \E f \in GridFiles : InitializeEnergy(open, f)
  \/ \E open \in BOOLEAN : \E f \in GridFiles : InitializeTime(open, f)
  \/ \E atoms \in 1..MaxAtoms : InitializeModelGeneral(atoms)
  \/ \E open \in BOOLEAN : \E c \in ConfigCells : ReadCells(open, c)
  \/ \E p \in ConfigFlags : \E td \in ConfigAxes : ReadBoundary(p, td)
  \/ \E lc \in ConfigConstants : ReadLatticeConstants(lc)
  \/ \E o \in 0..1 : \E m \in 0..1 : ReadOrbitals(o, m)
SpecConfig == InitConfig /\ [][NextConfig]_vars

TableUnallocated ==
  /\ DOMAIN neighbor_number = {} /\ DOMAIN neighbor_list = {}
  /\ DOMAIN hopping_real = {} /\ DOMAIN hopping_imag = {} /\ DOMAIN xx = {}

PastParameters == pc \notin {"start", "para_in", "exit"}
PastCells == PastParameters /\ pc \notin {"energy_in", "time_in",
                 "lattice_in", "general_in", "done"}
PastBoundary == PastCells /\ pc # "boundary"

\* C10: construction never gets past the checks, and never to a completed
\* model, when a general model is combined with Anderson disorder, vacancy
\* disorder or charged impurities, a lattice model with spin, spin with
\* VAC or MSD, or when lattice.in gives a cell extent <= 0, a boundary flag
\* outside {0, 1}, a transport axis outside {0, 1, 2} or a transport axis
\* that is not periodic; in the lattice.in cases no neighbor-table array
\* has been allocated or written when the process exits.
C10_FatalConfiguration ==
  /\ PastParameters =>
       /\ use_lattice_model # 1 =>
            ~(has_anderson_disorder \/ has_vacancy_disorder
                \/ has_charged_impurities)
       /\ use_lattice_model = 1 => ~calculate_spin
       /\ calculate_spin => ~(calculate_vac \/ calculate_msd)
  /\ PastCells => \A d \in 0..2 : N_cell[d] > 0
  /\ PastBoundary =>
       /\ \A d \in 0..2 : pbc[d] \in {0, 1}
       /\ transport_direction \in 0..2
       /\ pbc[transport_direction] = 1
  /\ ~TableUnallocated => PastBoundary
  /\ pc = "exit" => TableUnallocated

\* the process has exited on an open transport axis with nothing allocated
C10_Witness ==
  /\ pc = "exit" /\ use_lattice_model = 1
  /\ PositiveCells(N_cell) /\ transport_direction = 1
  /\ pbc = Arr3(1, 0, 1) /\ TableUnallocated

PastConstants == PastBoundary /\ pc # "lattice_constants"
PastOrbitals == PastConstants /\ pc # "orbitals"

\* C12: construction does not get past the point where a size or strength
\* is supplied when that value is <= 0: the vacancy count, the number of
\* random vectors, the number of moments, energy_max, the Anderson strength
\* W and the charged-impurity N, W and range when their engine is enabled,
\* the cell extents, the lattice constants, N_orbital and max_neighbor.
C12_NonPositiveIsFatal ==
  /\ PastParameters =>
       /\ has_vacancy_disorder => number_of_vacancies > 0
       /\ number_of_random_vectors > 0 /\ number_of_moments > 0
       /\ energy_max > 0
       /\ has_anderson_disorder => anderson_disorder_strength > 0
       /\ has_charged_impurities =>
            /\ number_of_charged_impurities > 0
            /\ charged_impurity_strength > 0 /\ charged_impurity_range > 0
  /\ PastCells => \A d \in 0..2 : N_cell[d] > 0
  /\ PastConstants => \A d \in 0..2 : lattice_constant[d] > 0
  /\ PastOrbitals => N_orbital > 0 /\ max_neighbor > 0

\* the getline loop met a line whose first token is no recognized key
UnknownLine == last_token \notin KnownTokens \cup {"", "(none)"}

\* the files of a complete construction, in the order of the claim
FileOrder ==
  <<"para.in", "energy.in">>
    \o (IF calculate_vac \/ calculate_msd \/ calculate_spin
        THEN <<"time_step.in">> ELSE <<>>)
    \o (IF use_lattice_model = 1 THEN <<"lattice.in">> ELSE <<"general">>)
ModelInputOpened ==
  \E i \in 1..Len(opened) : opened[i] \in {"lattice.in", "general"}

\* the parameters proper, without the bookkeeping of the read loop
Settings(p) == [p EXCEPT !.lines_read = 0, !.last_token = "", !.opened = <<>>]

\* C11: para.in is read one line at a time; a blank line changes nothing
\* and the loop goes on; at the first line with an unrecognized first token
\* the process exits, and then no further line is read, verify_parameters
\* has not run and only para.in has been opened; otherwise the files are
\* opened in the order para.in, energy.in, time_step.in (exactly when VAC,
\* MSD or spin is requested), model input, with verify_parameters run
\* before energy.in.
C11_ParameterFileOrder ==
  /\ [](UnknownLine =>
          /\ pc = "exit" /\ ~verified /\ ~requires_time
          /\ opened = <<"para.in">>)
  /\ [](/\ Len(opened) <= Len(FileOrder)
        /\ opened = SubSeq(FileOrder, 1, Len(opened))
        /\ Len(opened) > 1 => verified
        /\ ModelInputOpened => opened = FileOrder)
  /\ [][/\ lines_read' # lines_read =>
             /\ pc = "para_in" /\ lines_read' = lines_read + 1
        /\ (lines_read' # lines_read /\ last_token' = "") =>
             /\ pc' = "para_in" /\ Settings(Para)' = Settings(Para)
        /\ UnknownLine => UNCHANGED vars]_vars

\* the second line of para.in was `frobnicate 5`, after a calculate_vac line
C11_Witness ==
  /\ pc = "exit" /\ last_token = "frobnicate" /\ lines_read = 2
  /\ calculate_vac /\ opened = <<"para.in">>

\* ------------------------------------------- lattice.in: the unit cell
\* a template hop as the file lists it: <<nx, ny, nz, m_neighbor, Re, Im>>
TruncToInt(r) == IF r >= 0 THEN r \div Scale ELSE -((-r) \div Scale)
RealOfInt(i) == i * Scale

\* read x_cell, y_cell, z_cell of every orbital
ReadPositions(pos) ==
  /\ pc = "positions"
  /\ DOMAIN pos = 0..(N_orbital - 1)
  /\ x_cell' = [n \in 0..(N_orbital - 1) |-> pos[n][1]]
  /\ y_cell' = [n \in 0..(N_orbital - 1) |-> pos[n][2]]
  /\ z_cell' = [n \in 0..(N_orbital - 1) |-> pos[n][3]]
  /\ pc' = "template"
  /\ UNCHANGED <<ub, paraVars, gridVars, headVars, number_of_hoppings,
                 hopping_data, template, cursor, tableVars, siteVars,
                 vacVars, crnVars, stateVars>>

\* the value stored in row c of hopping_data for hop h: rows 0..3 are read
\* as int, rows 4 and 5 are reals assigned to int elements
HopRow(h, c) == IF c < 4 THEN h[c + 1] ELSE TruncToInt(h[c + 1])

\* the two read loops over orbitals m and entries n, in file order
RECURSIVE StoreHops(_, _, _, _)
StoreHops(hd, m, n, tpl) ==
  IF m >= N_orbital THEN hd
  ELSE IF n >= Len(tpl[m + 1]) THEN StoreHops(hd, m + 1, 0, tpl)
  ELSE LET idx == m * max_neighbor + n
           h == tpl[m + 1][n + 1]
       IN StoreHops([c \in 0..5 |-> Store(hd[c], idx, HopRow(h, c))],
                    m, n + 1, tpl)

\* read number_of_hoppings[m] and the hops of every orbital m
ReadTemplate(tpl) ==
  /\ pc = "template"
  /\ Len(tpl) = N_orbital
  /\ template' = tpl
  /\ number_of_hoppings' = [m \in 0..(N_orbital - 1) |-> Len(tpl[m + 1])]
  /\ hopping_data' = StoreHops(hopping_data, 0, 0, tpl)
  /\ ub' = (ub \/ \E m \in 0..(N_orbital - 1) :
                     m * max_neighbor + Len(tpl[m + 1])
                       > N_orbital * max_neighbor)
  /\ cursor' = 0
  /\ pc' = "expand"
  /\ UNCHANGED <<paraVars, gridVars, headVars, x_cell, y_cell, z_cell,
                 tableVars, siteVars, vacVars, crnVars, stateVars>>

\* ------------------------------------------------ the unit-cell expander
\* a fold that reduces each coordinate modulo its extent
FindIndexModulo(nx, ny, nz, Nx, Ny, Nz, m, orbitals) ==
  (((nx % Nx) * Ny + (ny % Ny)) * Nz + (nz % Nz)) * orbitals + m

\* find_index: one wrap per axis and side, then the row-major fold
FindIndex(nx, ny, nz, Nx, Ny, Nz, m, orbitals) ==
  LET wx == IF nx < 0 THEN nx + Nx ELSE nx
      fx == IF wx >= Nx THEN wx - Nx ELSE wx
      wy == IF ny < 0 THEN ny + Ny ELSE ny
      fy == IF wy >= Ny THEN wy - Ny ELSE wy
      wz == IF nz < 0 THEN nz + Nz ELSE nz
      fz == IF wz >= Nz THEN wz - Nz ELSE wz
  IN ((fx * Ny + fy) * Nz + fz) * orbitals + m

\* loop variables of the iteration that `cursor` iterations precede
LoopM(c) == c % N_orbital
LoopZ(c) == (c \div N_orbital) % N_cell[2]
LoopY(c) == (c \div (N_orbital * N_cell[2])) % N_cell[1]
LoopX(c) == c \div (N_orbital * N_cell[2] * N_cell[1])

\* a hop is skipped on any axis, periodic or not
SkipAnyAxis(n2, d) == n2 < 0 \/ n2 >= N_cell[d]

\* bool skip_x = !pbc[0] && (nx2 < 0 || nx2 >= N_cell[0]);
Skip(n2, d) == pbc[d] = 0 /\ (n2 < 0 \/ n2 >= N_cell[d])

\* x12 with the intra-cell offsets of the transport axis
Displacement12Axis(td, offset, target, m, gx) ==
  LET cell == IF td = 0 THEN x_cell ELSE IF td = 1 THEN y_cell ELSE z_cell
  IN lattice_constant[td] * offset
       + (IF InRange(cell, target) THEN cell[target] ELSE gx) - cell[m]

\* real x12 = lattice_constant[transport_direction] * hopping_data[..][k];
\* x12 += x_cell[hopping_data[3][k]] - x_cell[m];
Displacement12(td, offset, target, m, gx) ==
  lattice_constant[td] * offset
    + (IF InRange(x_cell, target) THEN x_cell[target] ELSE gx) - x_cell[m]

\* row c of hopping_data at k; g is what a read past the end yields
HopAt(c, k, g) ==
  IF InRange(hopping_data[c], k) THEN hopping_data[c][k] ELSE g[c + 1]

\* the loop over i for source atom n1 = (nx1, ny1, nz1, m): t holds the four
\* slot arrays, count and whether a write fell outside them
RECURSIVE HopLoop(_, _, _, _, _, _, _, _)
HopLoop(i, t, n1, nx1, ny1, nz1, m, g) ==
  IF i >= number_of_hoppings[m] THEN t
  ELSE LET neighbor_index == n1 * max_neighbor + t.count
           k == m * max_neighbor + i
           nx2 == HopAt(0, k, g) + nx1
           ny2 == HopAt(1, k, g) + ny1
           nz2 == HopAt(2, k, g) + nz1
       IN IF Skip(nx2, 0) \/ Skip(ny2, 1) \/ Skip(nz2, 2)
          THEN HopLoop(i + 1, t, n1, nx1, ny1, nz1, m, g)
          ELSE HopLoop(i + 1,
                 [neighbor_list |-> Store(t.neighbor_list, neighbor_index,
                     FindIndex(nx2, ny2, nz2, N_cell[0], N_cell[1],
                               N_cell[2], HopAt(3, k, g), N_orbital)),
                  xx |-> Store(t.xx, neighbor_index,
                     Displacement12(transport_direction,
                                    HopAt(transport_direction, k, g),
                                    HopAt(3, k, g), m, g[1])),
                  hopping_real |-> Store(t.hopping_real, neighbor_index,
                                         RealOfInt(HopAt(4, k, g))),
                  hopping_imag |-> Store(t.hopping_imag, neighbor_index,
                                         RealOfInt(HopAt(5, k, g))),
                  count |-> t.count + 1,
                  outside |-> (t.outside
                                 \/ ~InRange(t.neighbor_list, neighbor_index)),
                  written |-> t.written \cup {neighbor_index}],
                 n1, nx1, ny1, nz1, m, g)

GarbageHops == {<<0, 0, 0, 0, 0, 0>>, <<1, 0, -1, 0, 3, 1>>}

\* one iteration of the four nested loops: positions, the hop loop and
\* neighbor_number[n1]
ExpandAtom(g) ==
  /\ pc = "expand"
  /\ cursor < number_of_atoms
  /\ LET m == LoopM(cursor)
         nx1 == LoopX(cursor)
         ny1 == LoopY(cursor)
         nz1 == LoopZ(cursor)
         n1 == FindIndex(nx1, ny1, nz1, N_cell[0], N_cell[1], N_cell[2],
                         m, N_orbital)
         past == \E i \in 0..(number_of_hoppings[m] - 1) :
                   ~InRange(hopping_data[0], m * max_neighbor + i)
         t == HopLoop(0, [neighbor_list |-> neighbor_list, xx |-> xx,
                          hopping_real |-> hopping_real,
                          hopping_imag |-> hopping_imag, count |-> 0,
                          outside |-> FALSE, written |-> {}],
                      n1, nx1, ny1, nz1, m, g)
     IN /\ past \/ g = <<0, 0, 0, 0, 0, 0>>
        /\ neighbor_list' = t.neighbor_list /\ xx' = t.xx
        /\ hopping_real' = t.hopping_real /\ hopping_imag' = t.hopping_imag
        /\ neighbor_number' = [neighbor_number EXCEPT ![n1] = t.count]
        /\ ub' = (ub \/ past \/ t.outside)
        /\ written_slots' = [written_slots EXCEPT ![n1] = t.written]
        /\ IF has_charged_impurities
           THEN /\ x' = [x EXCEPT ![n1] = x_cell[m] + lattice_constant[0] * nx1]
                /\ y' = [y EXCEPT ![n1] = y_cell[m] + lattice_constant[1] * ny1]
                /\ z' = [z EXCEPT ![n1] = z_cell[m] + lattice_constant[2] * nz1]
           ELSE UNCHANGED <<x, y, z>>
  /\ cursor' = cursor + 1
  /\ pc' = IF cursor + 1 < number_of_atoms THEN pc
           ELSE IF has_vacancy_disorder THEN "add_vacancies" ELSE "potential"
  /\ UNCHANGED <<paraVars, gridVars, headVars, cellVars, number_of_atoms,
                 number_of_pairs, potential, vacVars, crnVars, stateVars>>

\* neither Anderson disorder nor charged impurities: print_finished_reading
\* and return
FinishLattice ==
  /\ pc = "potential"
  /\ ~has_anderson_disorder /\ ~has_charged_impurities
  /\ pc' = "done"
  /\ UNCHANGED <<ub, paraVars, restVars>>

\* ---------------------------------------------------------- add_vacancies
\* copy the table, shrink number_of_atoms and number_of_pairs, reallocate;
\* new T[n] with n < 0 throws and the process terminates
AddVacanciesBegin ==
  /\ pc = "add_vacancies"
  /\ neighbor_number_pristine' = neighbor_number
  /\ neighbor_list_pristine' = neighbor_list
  /\ hopping_real_pristine' = hopping_real
  /\ hopping_imag_pristine' = hopping_imag
  /\ xx_pristine' = xx
  /\ number_of_atoms_pristine' = number_of_atoms
  /\ LET atoms == number_of_atoms - number_of_vacancies
         pairs == atoms * max_neighbor
     IN /\ number_of_atoms' = atoms /\ number_of_pairs' = pairs
        /\ IF atoms < 0
           THEN /\ pc' = "crashed"
                /\ neighbor_number' = Empty /\ neighbor_list' = Empty
                /\ hopping_real' = Empty /\ hopping_imag' = Empty
                /\ xx' = Empty
                /\ UNCHANGED is_vacancy
           ELSE /\ pc' = "specify_vacancies"
                /\ neighbor_number' = NewArray(atoms)
                /\ neighbor_list' = NewArray(pairs)
                /\ hopping_real' = NewArray(pairs)
                /\ hopping_imag' = NewArray(pairs)
                /\ xx' = NewArray(pairs)
                /\ is_vacancy' = NewArray(number_of_atoms)
  /\ UNCHANGED <<ub, paraVars, gridVars, headVars, cellVars, cursor,
                 written_slots, siteVars, new_atom_index, count_atom, vac_n,
                 survivors,
                 crnVars, stateVars>>

\* the value of `count` when find_new_atom_index reaches atom n
NewIndex(flags, n) == Cardinality({j \in 0..(n - 1) : flags[j] = 0})

\* find_new_atom_index, then the rebuild loop starts
FindNewAtomIndex ==
  /\ pc = "find_new_atom_index"
  /\ new_atom_index' = [n \in 0..(number_of_atoms_pristine - 1) |->
        IF is_vacancy[n] = 0 THEN NewIndex(is_vacancy, n) ELSE Uninit]
  /\ count_atom' = 0 /\ vac_n' = 0
  /\ pc' = "rebuild"
  /\ UNCHANGED <<ub, paraVars, gridVars, headVars, cellVars, cursor,
                 tableVars, siteVars, number_of_atoms_pristine,
                 neighbor_number_pristine, neighbor_list_pristine,
                 hopping_real_pristine, hopping_imag_pristine, xx_pristine,
                 is_vacancy, survivors, crnVars, stateVars>>

Load(a, i, g) == IF InRange(a, i) THEN a[i] ELSE g

\* is_vacancy[k] != 0; g.vacant is what a read outside is_vacancy yields
TargetVacant(k, g) == Load(is_vacancy, k, g.vacant) # 0

\* the loop over the pristine slots m of surviving atom n
RECURSIVE KeepLoop(_, _, _, _)
KeepLoop(m, t, n, g) ==
  IF m >= neighbor_number_pristine[n] THEN t
  ELSE LET index_old == n * max_neighbor + m
           k == Load(neighbor_list_pristine, index_old, g.target)
           index_new == count_atom * max_neighbor + t.count
           reads == /\ InRange(neighbor_list_pristine, index_old)
                    /\ InRange(is_vacancy, k)
       IN IF TargetVacant(k, g)
          THEN KeepLoop(m + 1, [t EXCEPT !.outside = t.outside \/ ~reads],
                        n, g)
          ELSE KeepLoop(m + 1,
                 [neighbor_list |-> Store(t.neighbor_list, index_new,
                                          Load(new_atom_index, k, g.index)),
                  hopping_real |-> Store(t.hopping_real, index_new,
                     Load(hopping_real_pristine, index_old, g.value)),
                  hopping_imag |-> Store(t.hopping_imag, index_new,
                     Load(hopping_imag_pristine, index_old, g.value)),
                  xx |-> Store(t.xx, index_new,
                     Load(xx_pristine, index_old, g.value)),
                  count |-> t.count + 1,
                  outside |-> (t.outside \/ ~reads
                                 \/ ~InRange(t.neighbor_list, index_new))],
                 n, g)

GarbageReads ==
  [target : {0}, vacant : {0, 1}, index : {-1, 9}, value : {0}]
NoGarbage == [target |-> 0, vacant |-> 0, index |-> -1, value |-> 0]

\* one iteration of the loop over the pristine atoms n
RebuildAtom(g) ==
  /\ pc = "rebuild"
  /\ vac_n < number_of_atoms_pristine
  /\ IF is_vacancy[vac_n] = 0
     THEN LET t == KeepLoop(0, [neighbor_list |-> neighbor_list, xx |-> xx,
                                hopping_real |-> hopping_real,
                                hopping_imag |-> hopping_imag, count |-> 0,
                                outside |-> FALSE], vac_n, g)
              clean == KeepLoop(0, [neighbor_list |-> neighbor_list,
                                xx |-> xx, hopping_real |-> hopping_real,
                                hopping_imag |-> hopping_imag, count |-> 0,
                                outside |-> FALSE], vac_n, NoGarbage)
          IN /\ clean.outside \/ g = NoGarbage
             /\ neighbor_list' = t.neighbor_list /\ xx' = t.xx
             /\ hopping_real' = t.hopping_real
             /\ hopping_imag' = t.hopping_imag
             /\ neighbor_number' = Store(neighbor_number, count_atom, t.count)
             /\ ub' = (ub \/ t.outside \/ ~InRange(neighbor_number, count_atom))
             /\ count_atom' = count_atom + 1
     ELSE /\ g = NoGarbage
          /\ UNCHANGED <<neighbor_list, xx, hopping_real, hopping_imag,
                         neighbor_number, ub, count_atom>>
  /\ survivors' = IF is_vacancy[vac_n] = 0 THEN Append(survivors, vac_n)
                  ELSE survivors
  /\ vac_n' = vac_n + 1
  /\ pc' = IF vac_n + 1 < number_of_atoms_pristine THEN pc
           ELSE "free_pristine"
  /\ UNCHANGED <<paraVars, gridVars, headVars, cellVars, cursor,
                 number_of_atoms, number_of_pairs, written_slots, siteVars,
                 number_of_atoms_pristine, neighbor_number_pristine,
                 neighbor_list_pristine, hopping_real_pristine,
                 hopping_imag_pristine, xx_pristine, is_vacancy,
                 new_atom_index, crnVars, stateVars>>

\* delete[] of the pristine copies, is_vacancy and new_atom_index
FreePristine ==
  /\ pc = "free_pristine"
  /\ neighbor_number_pristine' = Empty /\ neighbor_list_pristine' = Empty
  /\ hopping_real_pristine' = Empty /\ hopping_imag_pristine' = Empty
  /\ xx_pristine' = Empty /\ is_vacancy' = Empty /\ new_atom_index' = Empty
  /\ pc' = "potential"
  /\ UNCHANGED <<ub, paraVars, gridVars, headVars, cellVars, cursor,
                 tableVars, siteVars, number_of_atoms_pristine, count_atom,
                 vac_n, survivors, crnVars, stateVars>>

\* --------------------------------------------------- add_anderson_disorder
\* real W2 = anderson_disorder_strength * 0.5
HalfOf(r) == IF r >= 0 THEN r \div 2 ELSE -((-r) \div 2)

\* values the uniform distribution on [-W2, W2) is sampled at
UniformDraws(W2) == {-W2, 0}

\* potential[n] = on_site_potential(generator) for every atom
AddAndersonDisorder(draw) ==
  /\ pc = "potential" /\ has_anderson_disorder
  /\ DOMAIN draw = 0..(number_of_atoms - 1)
  /\ potential' = [n \in DOMAIN potential |->
                     IF n < number_of_atoms THEN draw[n] ELSE potential[n]]
  /\ pc' = IF has_charged_impurities THEN "impurities" ELSE "done"
  /\ UNCHANGED <<ub, paraVars, gridVars, headVars, cellVars, cursor,
                 tableVars, x, y, z, vacVars, crnVars, stateVars>>

\* ------------------------------------------------- add_charged_impurities
\* allocate impurity_indices and impurity_strength and call
\* create_random_numbers(number_of_atoms, number_of_charged_impurities, ..)
ChargedBegin ==
  /\ \/ pc = "potential" /\ ~has_anderson_disorder /\ has_charged_impurities
     \/ pc = "impurities"
  /\ IF number_of_charged_impurities < 0
     THEN /\ pc' = "crashed"
          /\ UNCHANGED crnVars
     ELSE /\ crn_max_value' = number_of_atoms
          /\ crn_total_number' = number_of_charged_impurities
          /\ random_numbers' = NewArray(number_of_charged_impurities)
          /\ permuted_numbers' = Identity(number_of_atoms)
          /\ crn_i' = 0 /\ crn_j' = 0
          /\ crn_return' = "impurity_strength"
          /\ pc' = "crn_shuffle"
  /\ UNCHANGED <<ub, paraVars, gridVars, headVars, cellVars, cursor,
                 tableVars, siteVars, vacVars, stateVars>>

\* the squared minimum-image distance between positions p and q
D12Square(p, q) ==
  LET r(d) == IF q[d + 1] >= p[d + 1] THEN q[d + 1] - p[d + 1]
              ELSE p[d + 1] - q[d + 1]
      m(d) == IF pbc[d] = 1 /\ 2 * r(d) > box_length[d]
              THEN box_length[d] - r(d) ELSE r(d)
  IN m(0) * m(0) + m(1) * m(1) + m(2) * m(2)

\* (x[n], y[n], z[n]); g is what a read outside the arrays yields
PositionAt(n, g) ==
  IF InRange(x, n) THEN <<x[n], y[n], z[n]>> ELSE <<g, g, g>>

\* one term impurity_strength[i] * exp(-d12_square / range^2 * 0.5) of a
\* potential, kept as its three ingredients
ScreenedTerm(charge, d12_square) ==
  [charge |-> charge, d12_square |-> d12_square,
   range_square |-> charged_impurity_range * charged_impurity_range]

\* the rest of add_charged_impurities: draw the strengths, accumulate the
\* potential of every atom, delete[] both arrays
AccumulatePotential(strength, g) ==
  /\ pc = "impurity_strength"
  /\ DOMAIN strength = 0..(number_of_charged_impurities - 1)
  /\ LET outside == \E i \in DOMAIN random_numbers :
                       ~InRange(x, random_numbers[i])
     IN /\ outside \/ g = 0
        /\ ub' = (ub \/ outside)
        /\ potential' = [n1 \in DOMAIN potential |->
              IF n1 < number_of_atoms
              THEN [i \in 0..(number_of_charged_impurities - 1) |->
                      ScreenedTerm(strength[i],
                        D12Square(PositionAt(n1, g),
                                  PositionAt(random_numbers[i], g)))]
              ELSE potential[n1]]
  /\ random_numbers' = Empty
  /\ pc' = "done"
  /\ UNCHANGED <<paraVars, gridVars, headVars, cellVars, cursor, tableVars,
                 x, y, z, vacVars, crn_max_value, crn_total_number,
                 permuted_numbers, crn_i, crn_j, crn_return, stateVars>>

\* --------------------------------------------- lattice.in files explored
LatticeCells ==
  {c \in [0..2 -> 1..MaxCell] : c[0] * c[1] * c[2] <= MaxAtoms}
LatticeFlags == [0..2 -> {0, 1}]
LatticeConstants == {Arr3(2, 3, 5)}
OrbitalCounts == {1, 2}
NeighborCaps == {1, 2}
OrbitalPositions(orbitals) ==
  {[n \in 0..(orbitals - 1) |-> <<n, 2 * n, 3 * n>>]}

\* hops an orbital may list: orbital 0 hops along each axis, beyond the
\* extent of an axis and to orbital 1; later orbitals hop back to orbital 0
HopMenu(m, orbitals) ==
  IF m = 0
  THEN {h \in {<<1, 0, 0, 0, 2, 0>>, <<0, 1, 0, 0, 1, -1>>,
               <<0, 0, -2, 0, 3, 0>>, <<0, 0, 0, 1, -3, 2>>} :
          h[4] < orbitals}
  ELSE {<<0, 0, 0, 0, 2, 1>>}
HopLists(menu, longest) == UNION {[1..n -> menu] : n \in 0..longest}
Templates(orbitals) ==
  IF orbitals = 1
  THEN {<<a>> : a \in HopLists(HopMenu(0, 1), MaxHops)}
  ELSE {<<a, b>> : a \in HopLists(HopMenu(0, 2), MaxHops),
                   b \in HopLists(HopMenu(1, 2), 1)}

\* the unit-cell expander on a verified lattice configuration without
\* disorder
InitExpander ==
  /\ pc = "lattice_in" /\ ub = FALSE
  /\ ParaEq(Verified([ParaDefault EXCEPT !.use_lattice_model = 1], FALSE))
  /\ GridBlank /\ HeadBlank /\ CellBlank /\ cursor = 0 /\ TableIs(0)
  /\ SiteBlank /\ VacIs(0, Empty) /\ CrnBlank /\ StateBlank
ReadLattice ==
  \/ \E open \in BOOLEAN : \E c \in LatticeCells : ReadCells(open, c)
  \/ \E p \in LatticeFlags : \E td \in 0..2 : ReadBoundary(p, td)
  \/ \E lc \in LatticeConstants : ReadLatticeConstants(lc)
  \/ \E o \in OrbitalCounts : \E m \in NeighborCaps :
        /\ o * N_cell[0] * N_cell[1] * N_cell[2] <= MaxAtoms
        /\ ReadOrbitals(o, m)
  \/ \E pos \in OrbitalPositions(N_orbital) : ReadPositions(pos)
NextExpander ==
  \/ ReadLattice
  \/ \E tpl \in Templates(N_orbital) : ReadTemplate(tpl)
  \/ \E g \in GarbageHops : ExpandAtom(g)
  \/ FinishLattice
  \/ Crash
SpecExpander == InitExpander /\ [][NextExpander]_vars

\* ------------------------------------- the lattice model with vacancies
VacancyFlags == {Arr3(1, 1, 1), Arr3(1, 0, 1)}
VacancyCounts == 1..MaxVacancies

\* initialize_lattice_model after run.in asked for vacancy disorder
Init ==
  /\ pc = "lattice_in" /\ ub = FALSE
  /\ \E k \in VacancyCounts :
        ParaEq(Verified([ParaDefault EXCEPT !.use_lattice_model = 1,
                  !.has_vacancy_disorder = TRUE, !.number_of_vacancies = k],
                  FALSE))
  /\ GridBlank /\ HeadBlank /\ CellBlank /\ cursor = 0 /\ TableIs(0)
  /\ SiteBlank /\ VacIs(0, Empty) /\ CrnBlank /\ StateBlank
ReadVacancyLattice ==
  \/ \E c \in LatticeCells : ReadCells(TRUE, c)
  \/ \E p \in VacancyFlags : ReadBoundary(p, 0)
  \/ \E lc \in LatticeConstants : ReadLatticeConstants(lc)
  \/ \E o \in OrbitalCounts : \E m \in NeighborCaps :
        /\ o * N_cell[0] * N_cell[1] * N_cell[2] <= MaxAtoms
        /\ ReadOrbitals(o, m)
  \/ \E pos \in OrbitalPositions(N_orbital) : ReadPositions(pos)
AddVacancies ==
  \/ AddVacanciesBegin
  \/ SpecifyVacanciesCall
  \/ \E r \in RandInts : CrnSwap(r)
  \/ \E g \in Garbage : CrnCopy(g)
  \/ MarkVacancies
  \/ FindNewAtomIndex
  \/ \E g \in GarbageReads : RebuildAtom(g)
  \/ FreePristine
Next ==
  \/ ReadVacancyLattice
  \/ \E tpl \in Templates(N_orbital) : ReadTemplate(tpl)
  \/ \E g \in GarbageHops : ExpandAtom(g)
  \/ AddVacancies
  \/ FinishLattice
  \/ Crash
Spec == Init /\ [][Next]_vars

Atoms == 0..(number_of_atoms - 1)

\* ------------------- the lattice model with vacancies and impurities
ImpurityCounts == 1..MaxImpurities
ImpurityVacancies == {1, 2}
ImpurityTemplates(orbitals) ==
  IF orbitals = 1
  THEN {<< <<(<<1, 0, 0, 0, 2, 0>>)>> >>}
  ELSE {<< <<(<<1, 0, 0, 0, 2, 0>>)>>, <<(<<0, 0, 0, 0, 2, 1>>)>> >>}

\* initialize_lattice_model after run.in asked for vacancy disorder and
\* charged impurities, with or without Anderson disorder
InitImpurity ==
  /\ pc = "lattice_in" /\ ub = FALSE
  /\ \E k \in ImpurityVacancies : \E i \in ImpurityCounts :
     \E anderson \in BOOLEAN :
        ParaEq(Verified([ParaDefault EXCEPT !.use_lattice_model = 1,
                  !.has_vacancy_disorder = TRUE, !.number_of_vacancies = k,
                  !.has_charged_impurities = TRUE,
                  !.number_of_charged_impurities = i,
                  !.charged_impurity_strength = Scale,
                  !.charged_impurity_range = Scale,
                  !.has_anderson_disorder = anderson,
                  !.anderson_disorder_strength =
                       IF anderson THEN Scale ELSE 0],
                  FALSE))
  /\ GridBlank /\ HeadBlank /\ CellBlank /\ cursor = 0 /\ TableIs(0)
  /\ SiteBlank /\ VacIs(0, Empty) /\ CrnBlank /\ StateBlank
ReadImpurityLattice ==
  \/ \E c \in LatticeCells : ReadCells(TRUE, c)
  \/ \E p \in VacancyFlags : ReadBoundary(p, 0)
  \/ \E lc \in LatticeConstants : ReadLatticeConstants(lc)
  \/ \E o \in OrbitalCounts :
        /\ o * N_cell[0] * N_cell[1] * N_cell[2] <= MaxAtoms
        /\ ReadOrbitals(o, 1)
  \/ \E pos \in OrbitalPositions(N_orbital) : ReadPositions(pos)
AddDisorder ==
  \/ \E draw \in [Atoms -> UniformDraws(HalfOf(anderson_disorder_strength))] :
        AddAndersonDisorder(draw)
  \/ ChargedBegin
  \/ \E strength \in [0..(number_of_charged_impurities - 1) ->
                         UniformDraws(HalfOf(charged_impurity_strength))] :
        \E g \in Garbage : AccumulatePotential(strength, g)
NextImpurity ==
  \/ ReadImpurityLattice
  \/ \E tpl \in ImpurityTemplates(N_orbital) : ReadTemplate(tpl)
  \/ \E g \in GarbageHops : ExpandAtom(g)
  \/ AddVacancies
  \/ AddDisorder
  \/ Crash
SpecImpurity == InitImpurity /\ [][NextImpurity]_vars

\* ------------------------------------------------ the neighbor table
Slot(n, j) == n * max_neighbor + j
Expanded == ~has_vacancy_disorder /\ pc \in {"potential", "done"}

RECURSIVE SumTo(_, _)
SumTo(a, n) == IF n = 0 THEN 0 ELSE a[n - 1] + SumTo(a, n - 1)

\* the hops the file lists for the orbital of atom n, and the cell each one
\* points to from the cell of atom n before any wrap
FileHops(n) == template[LoopM(n) + 1]
RawCell(n, h) == <<LoopX(n) + h[1], LoopY(n) + h[2], LoopZ(n) + h[3]>>
OutsideOpenAxis(n, h) ==
  \E d \in 0..2 : pbc[d] = 0 /\ RawCell(n, h)[d + 1] \notin 0..(N_cell[d] - 1)
KeptHops(n) == SelectSeq(FileHops(n), LAMBDA h : ~OutsideOpenAxis(n, h))

\* the hops of orbital m as hopping_data holds them when the expansion runs,
\* and the ones among them that atom n emits, in order
Held(m) ==
  \A i \in 0..(number_of_hoppings[m] - 1) :
     InRange(hopping_data[0], m * max_neighbor + i)
StoredHops(m) ==
  [i \in 1..number_of_hoppings[m] |->
     [c \in 1..6 |-> hopping_data[c - 1][m * max_neighbor + i - 1]]]
EmittedHops(n) ==
  SelectSeq(StoredHops(LoopM(n)), LAMBDA h : ~OutsideOpenAxis(n, h))

\* C1: once the expansion loop is over, every atom n has
\* 0 <= neighbor_number[n] <= max_neighbor, the counts sum to at most
\* number_of_atoms * max_neighbor, and every slot written for atom n lies in
\* n*max_neighbor .. n*max_neighbor + max_neighbor - 1, whatever hop counts
\* the file lists. Stated for the runs in which every access stayed inside
\* its array.
C1_CountsWithinStride ==
  (Expanded /\ ~ub) =>
    /\ \A n \in Atoms :
          /\ 0 <= neighbor_number[n] /\ neighbor_number[n] <= max_neighbor
          /\ written_slots[n] \subseteq Slot(n, 0)..Slot(n, max_neighbor - 1)
    /\ SumTo(neighbor_number, number_of_atoms)
         <= number_of_atoms * max_neighbor

\* C5: a hop the file lists for the orbital of atom n is skipped exactly
\* when its raw target cell lies outside an open axis; neighbor_number[n]
\* is the number of the other hops, and the j-th of them, in file order,
\* is in slot n*max_neighbor + j of the table. Stated for the runs in which
\* every access stayed inside its array.
C5_SkipOnlyOpenAxis ==
  (Expanded /\ ~ub) =>
    \A n \in Atoms :
       /\ neighbor_number[n] = Len(KeptHops(n))
       /\ \A j \in 1..Len(KeptHops(n)) :
             LET h == KeptHops(n)[j]
             IN /\ InRange(neighbor_list, Slot(n, j - 1))
                /\ neighbor_list[Slot(n, j - 1)] =
                     FindIndex(RawCell(n, h)[1], RawCell(n, h)[2],
                               RawCell(n, h)[3], N_cell[0], N_cell[1],
                               N_cell[2], h[4], N_orbital)

\* C6: the target stored for an emitted hop is the row-major fold of the
\* raw target cell reduced modulo the extents, and is an atom index, for
\* every cell offset, also one longer than a periodic axis.
C6_TargetIsModuloFold ==
  Expanded =>
    \A n \in Atoms : Held(LoopM(n)) =>
       \A j \in 1..Len(EmittedHops(n)) : j <= max_neighbor =>
          LET h == EmittedHops(n)[j]
              t == neighbor_list[Slot(n, j - 1)]
          IN /\ t = FindIndexModulo(RawCell(n, h)[1], RawCell(n, h)[2],
                                    RawCell(n, h)[3], N_cell[0], N_cell[1],
                                    N_cell[2], h[4], N_orbital)
             /\ t \in Atoms

\* C7: the xx stored for an emitted hop is lattice_constant[t] times the
\* hop's cell offset along the transport axis t, plus the target orbital's
\* minus the source orbital's intra-cell offset along that same axis t.
C7_DisplacementAlongTransportAxis ==
  Expanded =>
    \A n \in Atoms : Held(LoopM(n)) =>
       \A j \in 1..Len(EmittedHops(n)) : j <= max_neighbor =>
          LET h == EmittedHops(n)[j]
          IN xx[Slot(n, j - 1)] =
               Displacement12Axis(transport_direction,
                                  h[transport_direction + 1], h[4],
                                  LoopM(n), 0)

\* C13: the slot of an emitted hop holds, as hopping_real and hopping_imag,
\* exactly the Re(t) and Im(t) the file gives for that template entry,
\* integer or not. Stated for the runs in which every access stayed inside
\* its array.
C13_AmplitudeAsInFile ==
  (Expanded /\ ~ub) =>
    \A n \in Atoms :
       \A j \in 1..Len(KeptHops(n)) :
          LET h == KeptHops(n)[j]
          IN InRange(hopping_real, Slot(n, j - 1)) =>
               /\ hopping_real[Slot(n, j - 1)] = h[5]
               /\ hopping_imag[Slot(n, j - 1)] = h[6]

\* the lattice file of the example: 1 orbital, 2 x 2 x 1 cells, all axes
\* periodic, the single hop (1,0,0,0, 1.0, 0.0)
SquareLatticeOneHop ==
  /\ Expanded
  /\ N_orbital = 1 /\ N_cell = Arr3(2, 2, 1) /\ pbc = Arr3(1, 1, 1)
  /\ template = << << <<1, 0, 0, 0, Scale, 0>> >> >>

\* C8 as stated: the example yields 4 atoms with two neighbors each, one in
\* +x and one in -x, and skips no hop.
C8_TwoNeighborsEach ==
  SquareLatticeOneHop =>
    /\ number_of_atoms = 4
    /\ \A n \in Atoms : /\ neighbor_number[n] = 2
                        /\ Len(KeptHops(n)) = Len(FileHops(n))

\* C8: the example yields 4 atoms with one neighbor each, the atom one cell
\* further in +x (wrapped around for the atoms of the last cell in x), and
\* skips no hop.
C8_OneNeighborEach ==
  SquareLatticeOneHop =>
    /\ number_of_atoms = 4
    /\ \A n \in Atoms : /\ neighbor_number[n] = 1
                        /\ neighbor_list[Slot(n, 0)] = (n + 2) % 4
                        /\ Len(KeptHops(n)) = Len(FileHops(n))
C8_Witness == SquareLatticeOneHop /\ pc = "done" /\ neighbor_list[Slot(3, 0)] = 1

\* ------------------------------------------------------- after vacancies
PristineAtoms == 0..(number_of_atoms_pristine - 1)
Compacted == has_vacancy_disorder /\ pc \in {"free_pristine", "potential", "done"}

\* C2: with 0 < k < N, after add_vacancies number_of_atoms = N - k,
\* number_of_pairs = (N - k) * max_neighbor, count_atom = N - k entries of
\* neighbor_number are written, and every used slot of every surviving atom
\* holds a target in [0, N - k).
C2_CompactTableInRange ==
  (/\ Compacted
   /\ 0 < number_of_vacancies
   /\ number_of_vacancies < number_of_atoms_pristine) =>
    LET left == number_of_atoms_pristine - number_of_vacancies
    IN /\ number_of_atoms = left
       /\ number_of_pairs = left * max_neighbor
       /\ count_atom = left
       /\ \A c \in 0..(left - 1) :
             /\ neighbor_number[c] # Uninit
             /\ \A j \in 0..(neighbor_number[c] - 1) :
                   /\ InRange(neighbor_list, Slot(c, j))
                   /\ neighbor_list[Slot(c, j)] \in 0..(left - 1)

\* the pristine slots of atom n that are in use and do not point to a vacancy
IsVacant(k) == InRange(is_vacancy, k) /\ is_vacancy[k] # 0
SurvivingSlots(n) ==
  SelectSeq([j \in 1..neighbor_number_pristine[n] |-> Slot(n, j - 1)],
            LAMBDA s : ~(InRange(neighbor_list_pristine, s)
                           /\ IsVacant(neighbor_list_pristine[s])))

\* C3: when the rebuild loop is over, the used slots of surviving atom n
\* under its compact index c are the pristine used slots of n whose target
\* is not a vacancy, in order, with the target replaced by its compact index
\* and hopping_real, hopping_imag and xx as they were; neighbor_number[c] is
\* their number and at most max_neighbor. Stated for the runs in which
\* every access stayed inside its array.
C3_CompactionKeepsSurvivingSlots ==
  (has_vacancy_disorder /\ pc = "free_pristine" /\ ~ub) =>
    \A n \in PristineAtoms : is_vacancy[n] = 0 =>
       LET c == NewIndex(is_vacancy, n)
           kept == SurvivingSlots(n)
       IN /\ InRange(neighbor_number, c)
          /\ neighbor_number[c] = Len(kept)
          /\ neighbor_number[c] <= max_neighbor
          /\ \A j \in 1..Len(kept) :
                LET old == kept[j]
                    new == Slot(c, j - 1)
                IN /\ InRange(neighbor_list_pristine, old)
                   /\ InRange(neighbor_list, new)
                   /\ InRange(is_vacancy, neighbor_list_pristine[old])
                   /\ neighbor_list[new] =
                        NewIndex(is_vacancy, neighbor_list_pristine[old])
                   /\ hopping_real[new] = hopping_real_pristine[old]
                   /\ hopping_imag[new] = hopping_imag_pristine[old]
                   /\ xx[new] = xx_pristine[old]


\* ------------------------------------- charged impurities after vacancies
\* where the expander put pristine atom n
PristinePosition(n) ==
  <<x_cell[LoopM(n)] + lattice_constant[0] * LoopX(n),
    y_cell[LoopM(n)] + lattice_constant[1] * LoopY(n),
    z_cell[LoopM(n)] + lattice_constant[2] * LoopZ(n)>>
ImpuritiesPlaced ==
  /\ has_vacancy_disorder /\ has_charged_impurities
  /\ pc \in {"impurity_strength", "done"}

\* C14: with vacancy disorder and charged impurities both enabled, and for
\* the runs in which every access stayed inside its array, the position
\* (x[c], y[c], z[c]) that add_charged_impurities reads for compact atom c
\* is the position of the pristine atom that was remapped to c.
C14_PositionFollowsRemap ==
  (ImpuritiesPlaced /\ ~ub) =>
     \A c \in Atoms :
        c + 1 <= Len(survivors) =>
           <<x[c], y[c], z[c]>> = PristinePosition(survivors[c + 1])


\* ------------------------------------------- the create_random_numbers calls
Sampling ==
  pc \in {"crn_shuffle", "mark_vacancies", "find_new_atom_index", "rebuild",
          "free_pristine", "impurity_strength"}

\* C15: every call of create_random_numbers has 0 <= total_number <=
\* max_value (the vacancy count is at most the pristine atom count, the
\* impurity count at most the remaining atom count), number_of_atoms is never
\* negative after the removal, and no access made while sampling, marking or
\* compacting falls outside its array.
C15_SampleFitsPopulation ==
  /\ pc = "crn_shuffle" =>
        0 <= crn_total_number /\ crn_total_number <= crn_max_value
  /\ number_of_atoms >= 0
  /\ Sampling => ~ub

====
